---- MODULE Spec2Model ----
(***************************************************************************)
(* Model of the Excel upload / participant search server (src/script.js,   *)
(* lines 340-626): the in-memory store `participants`, its JSON snapshot   *)
(* file, the upload, search, detail, trades and genders handlers; and of   *)
(* the browser client (lines 1-339), the state of one ExcelManagementSystem *)
(* object and of the form controls it reads.                               *)
(*                                                                         *)
(* JavaScript strings are sequences of one-character strings, so that      *)
(* String(), toUpperCase(), toLowerCase(), trim(), includes() and          *)
(* parseInt() are computed character by character.  A spreadsheet cell is  *)
(* a typed value (a number or a string); a cell that is empty in the sheet *)
(* is a key that is absent from the row object (xlsx.utils.sheet_to_json). *)
(* The created_at timestamp of a record is not modelled: nothing reads it. *)
(***************************************************************************)
EXTENDS Integers, Sequences, FiniteSets, TLC

VARIABLES participants, dataFile, pendingWrites, req, res, client

vars == <<participants, dataFile, pendingWrites, req, res, client>>

(***************************************************************************)
(* Bounds of the model.                                                    *)
(***************************************************************************)
MaxRows == 2        \* rows of one uploaded sheet
MaxStore == 3       \* records in the store, upload specification
MaxTotal == 3       \* records in the store, search specification
MaxPending == 2     \* snapshot writes in flight, persistence specification
MaxOverflow == 1    \* records beyond one full page, client specification

(***************************************************************************)
(* JavaScript values.                                                      *)
(***************************************************************************)
Undefined == [t |-> "undef", n |-> 0, s |-> <<>>]
Num(k) == [t |-> "num", n |-> k, s |-> <<>>]
Str(chars) == [t |-> "str", n |-> 0, s |-> chars]

\* A JavaScript number that may be NaN or an infinity.
NaN == [k |-> "nan", v |-> 0]
Infinity == [k |-> "inf", v |-> 0]
Int_(i) == [k |-> "int", v |-> i]
IsInt(x) == x.k = "int"

Uppers == <<"A","B","C","D","E","F","G","H","I","J","K","L","M",
            "N","O","P","Q","R","S","T","U","V","W","X","Y","Z">>
Lowers == <<"a","b","c","d","e","f","g","h","i","j","k","l","m",
            "n","o","p","q","r","s","t","u","v","w","x","y","z">>
DigitChars == <<"0","1","2","3","4","5","6","7","8","9">>

IndexIn(seq, c) == CHOOSE i \in DOMAIN seq : seq[i] = c
Occurs(seq, c) == \E i \in DOMAIN seq : seq[i] = c

UpperChar(c) == IF Occurs(Lowers, c) THEN Uppers[IndexIn(Lowers, c)] ELSE c
LowerChar(c) == IF Occurs(Uppers, c) THEN Lowers[IndexIn(Uppers, c)] ELSE c

toUpperCase(str) == [i \in DOMAIN str |-> UpperChar(str[i])]
toLowerCase(str) == [i \in DOMAIN str |-> LowerChar(str[i])]

IsSpace(c) == c = " "

RECURSIVE TrimStart(_)
TrimStart(str) ==
    IF str # <<>> /\ IsSpace(Head(str)) THEN TrimStart(Tail(str)) ELSE str

RECURSIVE TrimEnd(_)
TrimEnd(str) ==
    IF str # <<>> /\ IsSpace(str[Len(str)])
    THEN TrimEnd(SubSeq(str, 1, Len(str) - 1))
    ELSE str

trim(str) == TrimEnd(TrimStart(str))

\* String.prototype.includes: needle occurs as a contiguous substring.
includes(str, needle) ==
    \E i \in 0..Len(str) :
        /\ i + Len(needle) <= Len(str)
        /\ SubSeq(str, i + 1, i + Len(needle)) = needle

RECURSIVE NatToStr(_)
NatToStr(k) ==
    IF k < 10 THEN <<DigitChars[k + 1]>>
    ELSE NatToStr(k \div 10) \o <<DigitChars[(k % 10) + 1]>>

\* String(v)
String(v) ==
    CASE v.t = "undef" -> <<"u","n","d","e","f","i","n","e","d">>
      [] v.t = "num" -> IF v.n < 0 THEN <<"-">> \o NatToStr(-v.n) ELSE NatToStr(v.n)
      [] OTHER -> v.s

\* Truthiness of a value: undefined, 0 and "" are falsy.
Truthy(v) ==
    CASE v.t = "undef" -> FALSE
      [] v.t = "num" -> v.n # 0
      [] OTHER -> v.s # <<>>

RECURSIVE DigitsValue(_, _)
DigitsValue(str, acc) ==
    IF str # <<>> /\ Occurs(DigitChars, Head(str))
    THEN DigitsValue(Tail(str), acc * 10 + (IndexIn(DigitChars, Head(str)) - 1))
    ELSE acc

\* parseInt(v): leading white space, an optional sign, then the longest run
\* of decimal digits; NaN when there is no digit.
parseInt(v) ==
    LET str == TrimStart(String(v))
        neg == str # <<>> /\ Head(str) = "-"
        body == IF str # <<>> /\ Head(str) \in {"-", "+"} THEN Tail(str) ELSE str
    IN  IF body = <<>> \/ ~Occurs(DigitChars, Head(body)) THEN NaN
        ELSE Int_(IF neg THEN -DigitsValue(body, 0) ELSE DigitsValue(body, 0))

(***************************************************************************)
(* The uploaded sheet: xlsx.utils.sheet_to_json gives one object per row,  *)
(* keyed by column name; a row is a function from the column names that    *)
(* have a cell in that row to the cell values.                             *)
(***************************************************************************)
requiredColumns ==
    <<"P.No", "Mobile No", "Name", "Trade", "Gender",
      "Attendance Day 1", "Attendance Day 2">>

Columns == {requiredColumns[i] : i \in DOMAIN requiredColumns}

\* row[col]: undefined when the row has no such key.
Cell(row, col) == IF col \in DOMAIN row THEN row[col] ELSE Undefined

\* A row object built from seven cells; Undefined cells are absent keys.
MkRow(p, m, n, t, g, d1, d2) ==
    LET full == [c \in Columns |->
                    CASE c = "P.No" -> p
                      [] c = "Mobile No" -> m
                      [] c = "Name" -> n
                      [] c = "Trade" -> t
                      [] c = "Gender" -> g
                      [] c = "Attendance Day 1" -> d1
                      [] OTHER -> d2]
    IN  [c \in {k \in Columns : full[k].t # "undef"} |-> full[c]]

\* firstRow = jsonData[0] || {}
FirstRow(jsonData) == IF Len(jsonData) > 0 THEN jsonData[1] ELSE <<>>

\* Mutant of MissingColumns: only the three key columns are looked for.
MissingColumnsKeysOnly(jsonData) ==
    SelectSeq(SubSeq(requiredColumns, 1, Len(requiredColumns) - 4),
              LAMBDA col : col \notin DOMAIN FirstRow(jsonData))

\* requiredColumns.filter(col => !firstRow.hasOwnProperty(col))
MissingColumns(jsonData) ==
    SelectSeq(requiredColumns, LAMBDA col : col \notin DOMAIN FirstRow(jsonData))

\* Mutant of MissingRequiredFields: the Name cell is not looked at.
MissingRequiredFieldsNoName(row) ==
    \/ ~Truthy(Cell(row, "P.No"))
    \/ ~Truthy(Cell(row, "Mobile No"))

\* !row['P.No'] || !row['Mobile No'] || !row['Name']
MissingRequiredFields(row) ==
    \/ ~Truthy(Cell(row, "P.No"))
    \/ ~Truthy(Cell(row, "Mobile No"))
    \/ ~Truthy(Cell(row, "Name"))

\* String(cell).toUpperCase().trim()
AttendanceValue(cell) == trim(toUpperCase(String(cell)))

\* ['P', 'A'].includes(day)
IsPresentOrAbsent(day) == day \in {<<"P">>, <<"A">>}

\* The validation errors one row adds, in the order the code pushes them.
RowErrors(row, index, seenPNo, seenMobileNo) ==
    (IF MissingRequiredFields(row)
        THEN <<[row |-> index + 2, error |-> "Missing required fields"]>> ELSE <<>>)
    \o (IF Cell(row, "P.No") \in seenPNo
        THEN <<[row |-> index + 2, error |-> "Duplicate P.No"]>> ELSE <<>>)
    \o (IF Cell(row, "Mobile No") \in seenMobileNo
        THEN <<[row |-> index + 2, error |-> "Duplicate Mobile No"]>> ELSE <<>>)
    \o (IF ~IsPresentOrAbsent(AttendanceValue(Cell(row, "Attendance Day 1")))
        THEN <<[row |-> index + 2, error |-> "Invalid Attendance Day 1"]>> ELSE <<>>)
    \o (IF ~IsPresentOrAbsent(AttendanceValue(Cell(row, "Attendance Day 2")))
        THEN <<[row |-> index + 2, error |-> "Invalid Attendance Day 2"]>> ELSE <<>>)

\* if (row[col]) seen.add(row[col])
AddIfTruthy(seen, v) == IF Truthy(v) THEN seen \cup {v} ELSE seen

\* jsonData.forEach((row, index) => ...) of the validation pass, from `index`.
RECURSIVE ValidateFrom(_, _, _, _, _)
ValidateFrom(jsonData, index, seenPNo, seenMobileNo, validationErrors) ==
    IF index >= Len(jsonData) THEN validationErrors
    ELSE LET row == jsonData[index + 1]
         IN  ValidateFrom(jsonData, index + 1,
                          AddIfTruthy(seenPNo, Cell(row, "P.No")),
                          AddIfTruthy(seenMobileNo, Cell(row, "Mobile No")),
                          validationErrors \o RowErrors(row, index, seenPNo, seenMobileNo))

ValidationErrors(jsonData) == ValidateFrom(jsonData, 0, {}, {}, <<>>)

\* row[col] || ''
OrEmpty(v) == IF Truthy(v) THEN v ELSE Str(<<>>)

\* const newParticipant = { ... }
NewParticipant(row) ==
    [p_no |-> String(Cell(row, "P.No")),
     mobile_no |-> String(Cell(row, "Mobile No")),
     name |-> String(Cell(row, "Name")),
     trade |-> String(OrEmpty(Cell(row, "Trade"))),
     gender |-> String(OrEmpty(Cell(row, "Gender"))),
     attendance_day1 |-> toUpperCase(String(Cell(row, "Attendance Day 1"))),
     attendance_day2 |-> toUpperCase(String(Cell(row, "Attendance Day 2")))]

\* The keys of duplicateCheck after participants.forEach(p => { set(p.p_no);
\* set(p.mobile_no) }): one Map, keyed by the stored strings.
DuplicateCheckKeys(store) ==
    {Str(store[i].p_no) : i \in DOMAIN store}
        \cup {Str(store[i].mobile_no) : i \in DOMAIN store}

\* duplicateCheck.has(row['P.No']) || duplicateCheck.has(row['Mobile No'])
\* Map.has compares keys by SameValueZero: the number 1 is not the string "1".
IsDuplicate(keys, row) ==
    Cell(row, "P.No") \in keys \/ Cell(row, "Mobile No") \in keys

\* jsonData.forEach(row => ...) of the insert pass, from row i (1-based).
RECURSIVE InsertFrom(_, _, _)
InsertFrom(jsonData, i, acc) ==
    IF i > Len(jsonData) THEN acc
    ELSE LET row == jsonData[i]
         IN  IF IsDuplicate(acc.keys, row)
             THEN InsertFrom(jsonData, i + 1, acc)
             ELSE LET p == NewParticipant(row)
                  IN  InsertFrom(jsonData, i + 1,
                          [newParticipants |-> Append(acc.newParticipants, p),
                           keys |-> acc.keys \cup {Str(p.p_no), Str(p.mobile_no)},
                           insertCount |-> acc.insertCount + 1])

InsertPass(jsonData, store) ==
    InsertFrom(jsonData, 1,
               [newParticipants |-> <<>>, keys |-> DuplicateCheckKeys(store),
                insertCount |-> 0])

(***************************************************************************)
(* The snapshot file.  JSON.stringify writes each record as its fields in  *)
(* key order; JSON.parse rebuilds the records.  The file is missing, or    *)
(* holds a text that parses (valid) or does not (empty after a truncating  *)
(* open, or torn by two overlapping writes).                               *)
(***************************************************************************)
JSONstringify(store) ==
    [i \in DOMAIN store |->
        <<store[i].p_no, store[i].mobile_no, store[i].name, store[i].trade,
          store[i].gender, store[i].attendance_day1, store[i].attendance_day2>>]

JSONparse(text) ==
    [i \in DOMAIN text |->
        [p_no |-> text[i][1], mobile_no |-> text[i][2], name |-> text[i][3],
         trade |-> text[i][4], gender |-> text[i][5],
         attendance_day1 |-> text[i][6], attendance_day2 |-> text[i][7]]]

NoFile == [exists |-> FALSE, valid |-> FALSE, text |-> <<>>]

\* loadDataFromFile: the parsed file, or [] when reading or parsing throws.
loadDataFromFile(file) ==
    IF file.exists /\ file.valid THEN JSONparse(file.text) ELSE <<>>

\* saveDataToFile(): JSON.stringify runs at the call; fs.writeFile is
\* started and not awaited.
saveDataToFile(store, pending) ==
    Append(pending, [text |-> JSONstringify(store), phase |-> "open"])

(***************************************************************************)
(* Requests and responses.                                                 *)
(***************************************************************************)
NoRequest == [kind |-> "none"]
NoResponse == [status |-> 0]

UploadRequest(hasFile, readable, jsonData) ==
    [kind |-> "upload", hasFile |-> hasFile, readable |-> readable,
     jsonData |-> jsonData]

\* app.post('/api/upload'): the whole handler.
UploadHandler ==
    /\ req.kind = "upload"
    /\ req' = NoRequest
    /\ UNCHANGED <<dataFile, client>>
    /\ IF ~req.hasFile
       THEN /\ res' = [status |-> 400, error |-> "No file uploaded"]
            /\ UNCHANGED <<participants, pendingWrites>>
       ELSE IF ~req.readable
       THEN /\ res' = [status |-> 500, error |-> "Error processing Excel file"]
            /\ UNCHANGED <<participants, pendingWrites>>
       ELSE IF Len(MissingColumns(req.jsonData)) > 0
       THEN /\ res' = [status |-> 400, error |-> "Missing required columns",
                       missingColumns |-> MissingColumns(req.jsonData)]
            /\ UNCHANGED <<participants, pendingWrites>>
       ELSE IF Len(ValidationErrors(req.jsonData)) > 0
       THEN /\ res' = [status |-> 400, error |-> "Validation failed",
                       validationErrors |-> ValidationErrors(req.jsonData)]
            /\ UNCHANGED <<participants, pendingWrites>>
       ELSE LET pass == InsertPass(req.jsonData, participants)
            IN  /\ participants' = participants \o pass.newParticipants
                /\ pendingWrites' = saveDataToFile(participants', pendingWrites)
                /\ res' = [status |-> 200,
                           processed |-> Len(req.jsonData),
                           insertedRecords |-> pass.insertCount,
                           duplicatesSkipped |-> Len(req.jsonData) - pass.insertCount]

\* fs.writeFile, first step: the file is opened with flag 'w' (created or
\* truncated to length 0).
WriteOpen(i) ==
    /\ i \in DOMAIN pendingWrites
    /\ pendingWrites[i].phase = "open"
    /\ pendingWrites' = [pendingWrites EXCEPT ![i].phase = "write"]
    /\ dataFile' = [exists |-> TRUE, valid |-> FALSE, text |-> <<>>]
    /\ UNCHANGED <<participants, req, res, client>>

\* fs.writeFile, second step: the text is written at offset 0 and the file
\* closed.  Snapshots of a growing store are prefixes of one another, so a
\* text that is no shorter than the file replaces it, and a shorter one
\* leaves the tail of the longer text behind it: the file no longer parses.
WriteData(i) ==
    /\ i \in DOMAIN pendingWrites
    /\ pendingWrites[i].phase = "write"
    /\ dataFile' =
          IF Len(pendingWrites[i].text) >= Len(dataFile.text)
          THEN [exists |-> TRUE, valid |-> TRUE, text |-> pendingWrites[i].text]
          ELSE [exists |-> TRUE, valid |-> FALSE, text |-> dataFile.text]
    /\ pendingWrites' = [j \in 1..(Len(pendingWrites) - 1) |->
                            IF j < i THEN pendingWrites[j] ELSE pendingWrites[j + 1]]
    /\ UNCHANGED <<participants, req, res, client>>

(***************************************************************************)
(* The search handler, app.get('/api/participants').                       *)
(***************************************************************************)
SearchRequest(p_no, mobile_no, name, trade, gender, page, limit) ==
    [kind |-> "search", p_no |-> p_no, mobile_no |-> mobile_no, name |-> name,
     trade |-> trade, gender |-> gender, page |-> page, limit |-> limit]

\* p.p_no.toLowerCase().includes(p_no.toLowerCase())
MatchesPNo(p, p_no) == includes(toLowerCase(p.p_no), toLowerCase(p_no.s))

\* Mutant of MatchesMobileNo: the letter case is ignored, as for p_no.
MatchesMobileNoIgnoringCase(p, mobile_no) ==
    includes(toLowerCase(p.mobile_no), toLowerCase(mobile_no.s))

\* p.mobile_no.includes(mobile_no)
MatchesMobileNo(p, mobile_no) == includes(p.mobile_no, mobile_no.s)

\* p.name.toLowerCase().includes(name.toLowerCase())
MatchesName(p, name) == includes(toLowerCase(p.name), toLowerCase(name.s))

\* p.trade === trade
MatchesTrade(p, trade) == p.trade = trade.s

\* p.gender === gender
MatchesGender(p, gender) == p.gender = gender.s

\* let filteredParticipants = participants; if (p_no) { ... } ... : the five
\* filters applied one after the other, each only when its value is truthy.
FilteredParticipants(store, r) ==
    LET f1 == IF Truthy(r.p_no)
              THEN SelectSeq(store, LAMBDA p : MatchesPNo(p, r.p_no)) ELSE store
        f2 == IF Truthy(r.mobile_no)
              THEN SelectSeq(f1, LAMBDA p : MatchesMobileNo(p, r.mobile_no)) ELSE f1
        f3 == IF Truthy(r.name)
              THEN SelectSeq(f2, LAMBDA p : MatchesName(p, r.name)) ELSE f2
        f4 == IF Truthy(r.trade)
              THEN SelectSeq(f3, LAMBDA p : MatchesTrade(p, r.trade)) ELSE f3
    IN  IF Truthy(r.gender)
        THEN SelectSeq(f4, LAMBDA p : MatchesGender(p, r.gender)) ELSE f4

\* const { page = 1, limit = 10 } = req.query
DefaultLimit == 10
DefaultPage == 1
OrDefault(v, d) == IF v.t = "undef" THEN Num(d) ELSE v

\* Math.ceil(total / limit), total a length
CeilDiv(total, limit) ==
    IF ~IsInt(limit) THEN NaN
    ELSE IF limit.v = 0 THEN (IF total = 0 THEN NaN ELSE Infinity)
    ELSE IF limit.v > 0 THEN Int_((total + limit.v - 1) \div limit.v)
    ELSE Int_(-(total \div (-limit.v)))

\* Mutant of StartIndex: the page is taken as 0-based.
StartIndexZeroBased(currentPage, limit) ==
    IF IsInt(currentPage) /\ IsInt(limit)
    THEN Int_(currentPage.v * limit.v) ELSE NaN

\* (currentPage - 1) * parseInt(limit)
StartIndex(currentPage, limit) ==
    IF IsInt(currentPage) /\ IsInt(limit)
    THEN Int_((currentPage.v - 1) * limit.v) ELSE NaN

\* Math.min(startIndex + parseInt(limit), total)
EndIndex(startIndex, limit, total) ==
    IF IsInt(startIndex) /\ IsInt(limit)
    THEN Int_(IF startIndex.v + limit.v < total THEN startIndex.v + limit.v ELSE total)
    ELSE NaN

\* Array.prototype.slice: NaN is 0, a negative index counts from the end,
\* and both ends are clamped to [0, length].
RelativeIndex(x, len) ==
    IF ~IsInt(x) THEN 0
    ELSE IF x.v < 0 THEN (IF len + x.v < 0 THEN 0 ELSE len + x.v)
    ELSE IF x.v > len THEN len ELSE x.v

slice(list, start, end) ==
    SubSeq(list, RelativeIndex(start, Len(list)) + 1, RelativeIndex(end, Len(list)))

\* a < b on numbers: false when either is NaN.
Less(a, b) ==
    CASE a.k = "nan" \/ b.k = "nan" -> FALSE
      [] a.k = "inf" -> FALSE
      [] b.k = "inf" -> TRUE
      [] OTHER -> a.v < b.v

\* The response of the search handler.
SearchResponse(store, r) ==
    LET filtered == FilteredParticipants(store, r)
        limit == parseInt(OrDefault(r.limit, DefaultLimit))
        total == Len(filtered)
        totalPages == CeilDiv(total, limit)
        currentPage == parseInt(OrDefault(r.page, DefaultPage))
        startIndex == StartIndex(currentPage, limit)
        endIndex == EndIndex(startIndex, limit, total)
    IN  [status |-> 200,
         participants |-> slice(filtered, startIndex, endIndex),
         pagination |-> [total |-> total,
                         page |-> currentPage,
                         totalPages |-> totalPages,
                         limit |-> limit,
                         hasNext |-> Less(currentPage, totalPages),
                         hasPrev |-> Less(Int_(1), currentPage)]]

SearchHandler ==
    /\ req.kind = "search"
    /\ req' = NoRequest
    /\ res' = SearchResponse(participants, req)
    /\ UNCHANGED <<participants, dataFile, pendingWrites, client>>

(***************************************************************************)
(* The state of the browser client: the fields of the                      *)
(* ExcelManagementSystem object, the values of the five filter controls,   *)
(* the options of the two dropdowns, the disabled flags of the two page    *)
(* buttons, whether the debounce timer is armed, and which fetch the       *)
(* client is awaiting (`inInit` while init() is still running).  The       *)
(* markup is not part of the sources: controls start empty and enabled.    *)
(***************************************************************************)
\* JSON null, which is what JSON.stringify writes for NaN and Infinity.
Null == [k |-> "null", v |-> 0]

\* constructor(): the fields of a new object, the controls of a new page.
ExcelManagementSystem ==
    [open |-> TRUE,
     filteredParticipants |-> <<>>,
     currentPage |-> Int_(1),
     totalPages |-> Int_(1),
     totalCount |-> 0,
     pNoFilter |-> <<>>, mobileFilter |-> <<>>, nameFilter |-> <<>>,
     tradeFilter |-> <<>>, genderFilter |-> <<>>,
     tradeOptions |-> <<>>, genderOptions |-> <<>>,
     prevDisabled |-> FALSE, nextDisabled |-> FALSE,
     searchTimeout |-> FALSE,
     awaiting |-> "none", inInit |-> TRUE]

\* No page is open in the browser.
NoPage == [ExcelManagementSystem EXCEPT !.open = FALSE, !.inInit = FALSE]

\* A request arrives (for an upload, multer has stored the file); the
\* client sends one request at a time.
Receive(r) ==
    /\ req.kind = "none"
    /\ res = NoResponse
    /\ req' = r
    /\ UNCHANGED <<participants, dataFile, pendingWrites, res, client>>

\* The response reaches the client.
Deliver ==
    /\ res # NoResponse
    /\ res' = NoResponse
    /\ UNCHANGED <<participants, dataFile, pendingWrites, req, client>>

(***************************************************************************)
(* Upload specification: sheets of up to MaxRows rows over UploadRows are  *)
(* uploaded one after another, each after the previous snapshot write has  *)
(* finished.                                                               *)
(***************************************************************************)
UploadRows ==
    { \* a sheet whose P.No and Mobile No cells are numbers
      MkRow(Num(1), Num(7), Str(<<"A","b">>), Str(<<"W">>), Str(<<"M">>),
            Str(<<"P">>), Str(<<"A">>)),
      \* the same P.No typed as text; attendance in lower case and padded
      MkRow(Str(<<"1">>), Str(<<"8">>), Str(<<"A","b">>), Str(<<"W">>), Str(<<"M">>),
            Str(<<"p">>), Str(<<"a"," ">>)),
      \* a P.No that equals the Mobile No of the second row
      MkRow(Str(<<"8">>), Str(<<"9">>), Str(<<"b">>), Str(<<"W">>), Str(<<"F">>),
            Str(<<"A">>), Str(<<"P">>)),
      \* no Trade and no Gender cell
      MkRow(Str(<<"2">>), Str(<<"6">>), Str(<<"c">>), Undefined, Undefined,
            Str(<<"P">>), Str(<<"P">>)),
      \* no Name cell
      MkRow(Str(<<"3">>), Str(<<"5">>), Undefined, Str(<<"W">>), Str(<<"M">>),
            Str(<<"P">>), Str(<<"P">>)),
      \* P.No is the number 0
      MkRow(Num(0), Str(<<"4">>), Str(<<"d">>), Str(<<"W">>), Str(<<"M">>),
            Str(<<"P">>), Str(<<"P">>)),
      \* an attendance value that is neither P nor A
      MkRow(Str(<<"4">>), Str(<<"3">>), Str(<<"e">>), Str(<<"W">>), Str(<<"M">>),
            Str(<<"X">>), Str(<<"P">>)),
      \* no Attendance Day 2 cell
      MkRow(Str(<<"5">>), Str(<<"2">>), Str(<<"f">>), Str(<<"W">>), Str(<<"M">>),
            Str(<<"A">>), Undefined) }

Sheets(rows, n) == UNION {[1..k -> rows] : k \in 0..n}

UploadRequests ==
    {UploadRequest(FALSE, FALSE, <<>>), UploadRequest(TRUE, FALSE, <<>>)}
        \cup {UploadRequest(TRUE, TRUE, sheet) : sheet \in Sheets(UploadRows, MaxRows)}

Init ==
    /\ participants = <<>>
    /\ dataFile = NoFile
    /\ pendingWrites = <<>>
    /\ req = NoRequest
    /\ res = NoResponse
    /\ client = NoPage

ReceiveUpload ==
    \E r \in UploadRequests :
        /\ pendingWrites = <<>>
        /\ Len(participants) + Len(r.jsonData) <= MaxStore
        /\ Receive(r)

StartWrite == \E i \in DOMAIN pendingWrites : WriteOpen(i)

FinishWrite == \E i \in DOMAIN pendingWrites : WriteData(i)

Next ==
    \/ ReceiveUpload
    \/ UploadHandler
    \/ StartWrite
    \/ FinishWrite
    \/ Deliver

Spec == Init /\ [][Next]_vars

(***************************************************************************)
(* Claims about the upload handler.                                        *)
(***************************************************************************)
\* A step of the upload handler on a sheet that was read.
UploadStep ==
    /\ req.kind = "upload"
    /\ req.hasFile
    /\ req.readable
    /\ req' = NoRequest

StoreUnchanged ==
    /\ participants' = participants
    /\ pendingWrites' = pendingWrites
    /\ dataFile' = dataFile

\* The required columns that are not keys of the first row.
AbsentColumns(jsonData) ==
    {c \in Columns : Len(jsonData) = 0 \/ c \notin DOMAIN jsonData[1]}

\* C1: no two records of the store share a p_no, and no two share a
\* mobile_no.
C1_UniqueKeys ==
    \A i, j \in DOMAIN participants :
        i # j => /\ participants[i].p_no # participants[j].p_no
                 /\ participants[i].mobile_no # participants[j].mobile_no

\* C2: an upload whose first row lacks a required column is answered 400
\* with exactly the missing columns, and the store, the pending writes and
\* the snapshot file stay as they were.
C2_SchemaErrorRejects ==
    [][(UploadStep /\ AbsentColumns(req.jsonData) # {}) =>
          /\ res'.status = 400
          /\ res'.error = "Missing required columns"
          /\ {res'.missingColumns[i] : i \in DOMAIN res'.missingColumns}
                = AbsentColumns(req.jsonData)
          /\ StoreUnchanged]_vars

C2_Witness ==
    /\ res.status = 400
    /\ res.error = "Missing required columns"
    /\ Len(res.missingColumns) = 2
    /\ Len(participants) > 0

\* The row errors of the claim, stated on the cell values of the sheet: two
\* cells repeat a value when they are the same value of the same type.
EmptyOrMissing(row, col) == col \notin DOMAIN row \/ row[col] = Str(<<>>)

RepeatsEarlier(jsonData, i, col) ==
    /\ col \in DOMAIN jsonData[i]
    /\ \E j \in 1..(i - 1) :
          col \in DOMAIN jsonData[j] /\ jsonData[j][col] = jsonData[i][col]

BadAttendance(row, col) ==
    trim(toUpperCase(String(Cell(row, col)))) \notin {<<"P">>, <<"A">>}

RowHasError(jsonData, i) ==
    \/ EmptyOrMissing(jsonData[i], "P.No")
    \/ EmptyOrMissing(jsonData[i], "Mobile No")
    \/ EmptyOrMissing(jsonData[i], "Name")
    \/ RepeatsEarlier(jsonData, i, "P.No")
    \/ RepeatsEarlier(jsonData, i, "Mobile No")
    \/ BadAttendance(jsonData[i], "Attendance Day 1")
    \/ BadAttendance(jsonData[i], "Attendance Day 2")

Appended == SubSeq(participants', Len(participants) + 1, Len(participants'))

\* C4: in an upload that passes validation no appended record has the p_no
\* or the mobile_no of a record that was already stored, and
\* insertedRecords + duplicatesSkipped = totalRows with insertedRecords the
\* growth of the store.
C4_StoredDuplicatesSkipped ==
    [][(UploadStep /\ res'.status = 200) =>
          /\ \A k \in DOMAIN Appended : \A j \in DOMAIN participants :
                /\ Appended[k].p_no # participants[j].p_no
                /\ Appended[k].mobile_no # participants[j].mobile_no
          /\ res'.insertedRecords + res'.duplicatesSkipped = Len(req.jsonData)
          /\ res'.insertedRecords = Len(participants') - Len(participants)]_vars

\* The rows of a sheet whose P.No is no stored p_no and whose Mobile No is no
\* stored mobile_no.
Unmatched(row, store) ==
    \A j \in DOMAIN store :
        /\ String(Cell(row, "P.No")) # store[j].p_no
        /\ String(Cell(row, "Mobile No")) # store[j].mobile_no

ExpectedAppend(jsonData, store) ==
    LET rows == SelectSeq(jsonData, LAMBDA row : Unmatched(row, store))
    IN  [i \in DOMAIN rows |-> NewParticipant(rows[i])]

IsPrefix(a, b) == Len(a) <= Len(b) /\ SubSeq(b, 1, Len(a)) = a

\* Every cell of the sheet is text.
AllText(jsonData) ==
    \A i \in DOMAIN jsonData : \A c \in DOMAIN jsonData[i] : jsonData[i][c].t = "str"

\* C5, for sheets whose cells are all text: an upload that passes
\* validation appends, in row order, the record of every row that matches
\* no record of the store as it was before the upload, and every step
\* leaves the old store as a prefix of the new one.
C5_UnmatchedRowsAppended ==
    [][/\ IsPrefix(participants, participants')
       /\ (UploadStep /\ res'.status = 200 /\ AllText(req.jsonData)) =>
             participants' = participants \o ExpectedAppend(req.jsonData, participants)]_vars

(***************************************************************************)
(* Search specification: valid sheets over SearchRows are uploaded and the *)
(* store is searched with every combination of the filter, page and limit  *)
(* values below.                                                           *)
(***************************************************************************)
SearchRows ==
    { MkRow(Str(<<"A","1">>), Str(<<"7","a">>), Str(<<"A","b">>), Str(<<"W">>),
            Str(<<"M">>), Str(<<"P">>), Str(<<"A">>)),
      MkRow(Str(<<"a","2">>), Str(<<"8","A">>), Str(<<"b">>), Str(<<"w">>),
            Str(<<"F">>), Str(<<"A">>), Str(<<"P">>)),
      MkRow(Str(<<"3">>), Str(<<"7">>), Str(<<"B">>), Str(<<"W">>),
            Str(<<"M">>), Str(<<"P">>), Str(<<"P">>)),
      MkRow(Str(<<"4">>), Str(<<"9">>), Str(<<"a","b">>), Str(<<"T">>),
            Str(<<"F">>), Str(<<"A">>), Str(<<"A">>)) }

PNoFilters == {Undefined, Str(<<>>), Str(<<"a">>)}
MobileNoFilters == {Undefined, Str(<<"A">>)}
NameFilters == {Undefined, Str(<<"B">>)}
TradeFilters == {Undefined, Str(<<"W">>)}
GenderFilters == {Undefined, Str(<<"M">>)}
PageValues ==
    {Undefined, Str(<<"-","1">>), Str(<<"0">>), Str(<<"1">>), Str(<<"2">>),
     Str(<<"3">>), Str(<<"x">>)}
LimitValues ==
    {Undefined, Str(<<"-","1">>), Str(<<"0">>), Str(<<"1">>), Str(<<"2">>)}

SearchRequests ==
    {SearchRequest(f[1], f[2], f[3], f[4], f[5], f[6], f[7]) :
        f \in PNoFilters \X MobileNoFilters \X NameFilters \X TradeFilters
                \X GenderFilters \X PageValues \X LimitValues}

ReceiveSearchUpload ==
    \E sheet \in Sheets(SearchRows, MaxRows) :
        /\ pendingWrites = <<>>
        /\ Len(participants) + Len(sheet) <= MaxTotal
        /\ Receive(UploadRequest(TRUE, TRUE, sheet))

ReceiveSearch ==
    \E r \in SearchRequests :
        /\ pendingWrites = <<>>
        /\ Receive(r)

NextSearch ==
    \/ ReceiveSearchUpload
    \/ UploadHandler
    \/ StartWrite
    \/ FinishWrite
    \/ ReceiveSearch
    \/ SearchHandler
    \/ Deliver

SpecSearch == Init /\ [][NextSearch]_vars

(***************************************************************************)
(* Claims about the search handler.                                        *)
(***************************************************************************)
SearchStep == req.kind = "search" /\ req' = NoRequest

\* The filters of the claim, stated letter by letter.
SameLetter(a, b) ==
    a = b \/ \E n \in DOMAIN Uppers : {a, b} = {Uppers[n], Lowers[n]}

Contains(hay, needle) ==
    \E off \in 0..(Len(hay) - Len(needle)) :
        \A k \in DOMAIN needle : hay[off + k] = needle[k]

ContainsIgnoringCase(hay, needle) ==
    \E off \in 0..(Len(hay) - Len(needle)) :
        \A k \in DOMAIN needle : SameLetter(hay[off + k], needle[k])

Supplied(v) == v.t = "str" /\ v.s # <<>>

Satisfies(p, r) ==
    /\ Supplied(r.p_no) => ContainsIgnoringCase(p.p_no, r.p_no.s)
    /\ Supplied(r.mobile_no) => Contains(p.mobile_no, r.mobile_no.s)
    /\ Supplied(r.name) => ContainsIgnoringCase(p.name, r.name.s)
    /\ Supplied(r.trade) => p.trade = r.trade.s
    /\ Supplied(r.gender) => p.gender = r.gender.s

Matching(store, r) == SelectSeq(store, LAMBDA p : Satisfies(p, r))

\* q is the ceiling of a / b, b not 0.
IsCeil(q, a, b) ==
    IF b > 0 THEN q * b >= a /\ (q - 1) * b < a
    ELSE q * b <= a /\ (q - 1) * b > a

TotalPagesOf(total, limit) == CHOOSE q \in 0..total : IsCeil(q, total, limit)

\* C6: the pagination metadata of every search response: total is the
\* number of records that pass the filters, totalPages is the ceiling of
\* total / limit and 0 when total is 0, hasNext is page < totalPages and
\* hasPrev is page > 1; total 25, limit 10, page 3 give 3 pages, no next
\* page and a previous page.
C6_PaginationMetadata ==
    [][SearchStep =>
          LET pg == res'.pagination
              total == Len(Matching(participants, req))
          IN  /\ pg.total = total
              /\ total = 0 => pg.totalPages = Int_(0)
              /\ (IsInt(pg.limit) /\ pg.limit.v # 0) =>
                    IsInt(pg.totalPages) /\ IsCeil(pg.totalPages.v, total, pg.limit.v)
              /\ (IsInt(pg.page) /\ IsInt(pg.totalPages)) =>
                    pg.hasNext = (pg.page.v < pg.totalPages.v)
              /\ IsInt(pg.page) => pg.hasPrev = (pg.page.v > 1)
              /\ CeilDiv(25, Int_(10)) = Int_(3)
              /\ ~Less(Int_(3), CeilDiv(25, Int_(10)))
              /\ Less(Int_(1), Int_(3))]_vars

\* The pages 1..n of a search, one after the other.
RECURSIVE PagesUpTo(_, _, _)
PagesUpTo(store, r, n) ==
    IF n = 0 THEN <<>>
    ELSE PagesUpTo(store, r, n - 1)
            \o SearchResponse(store, [r EXCEPT !.page = Str(NatToStr(n))]).participants

\* C7: with limit >= 1 and 1 <= page <= totalPages the response holds the
\* filtered records at indices [(page-1)*limit, min(page*limit, total)) in
\* store order, and the pages 1..totalPages together are the filtered
\* records, each once, in store order.
C7_PageIsSlice ==
    [][SearchStep =>
          LET pg == res'.pagination
              matching == Matching(participants, req)
              total == Len(matching)
          IN  (/\ IsInt(pg.limit) /\ pg.limit.v >= 1
               /\ IsInt(pg.page) /\ pg.page.v >= 1
               /\ pg.page.v <= TotalPagesOf(total, pg.limit.v)) =>
                 /\ res'.participants =
                       SubSeq(matching, (pg.page.v - 1) * pg.limit.v + 1,
                              IF pg.page.v * pg.limit.v < total
                              THEN pg.page.v * pg.limit.v ELSE total)
                 /\ PagesUpTo(participants, req, TotalPagesOf(total, pg.limit.v))
                       = matching]_vars

C7_Witness ==
    /\ res.status = 200
    /\ "pagination" \in DOMAIN res
    /\ res.pagination.total = 3
    /\ res.pagination.limit = Int_(2)
    /\ res.pagination.page = Int_(2)
    /\ res.participants = <<participants[3]>>

\* C8, for requests with a limit of at least 1: a page below 1 or above
\* totalPages is answered 200 with no participants.
C8_OutOfRangePageIsEmpty ==
    [][SearchStep =>
          LET pg == res'.pagination
              total == Len(Matching(participants, req))
          IN  (/\ IsInt(pg.limit) /\ pg.limit.v >= 1
               /\ IsInt(pg.page)
               /\ \/ pg.page.v < 1
                  \/ pg.page.v > TotalPagesOf(total, pg.limit.v)) =>
                 /\ res'.status = 200
                 /\ res'.participants = <<>>]_vars

\* C9: the records a search selects are the stored records that satisfy
\* every supplied filter (p_no and name: substring, letter case ignored;
\* mobile_no: substring, letter case kept; trade and gender: equal), in
\* store order; a filter that is omitted or empty constrains nothing.
C9_FiltersAreConjunctive ==
    [][SearchStep =>
          /\ res'.pagination.total = Len(Matching(participants, req))
          /\ (req.page = Undefined /\ req.limit = Undefined) =>
                res'.participants = Matching(participants, req)
          /\ (\A f \in {req.p_no, req.mobile_no, req.name, req.trade, req.gender} :
                ~Supplied(f)) => res'.pagination.total = Len(participants)]_vars

C9_Witness ==
    /\ res.status = 200
    /\ "pagination" \in DOMAIN res
    /\ Len(participants) = 3
    /\ res.pagination.total = 1
    /\ res.participants = <<participants[2]>>
    /\ res.participants[1].mobile_no = <<"8","A">>
    /\ res.participants[1].p_no = <<"a","2">>

(***************************************************************************)
(* Persistence specification: uploads arrive while earlier snapshot writes *)
(* are still in flight (at most MaxPending of them), and the process is    *)
(* restarted when no write is in flight.                                   *)
(***************************************************************************)
ReceivePersistUpload ==
    \E sheet \in Sheets(SearchRows, MaxRows) :
        /\ Len(pendingWrites) < MaxPending
        /\ Len(participants) + Len(sheet) <= MaxTotal
        /\ Receive(UploadRequest(TRUE, TRUE, sheet))

\* The process is started again: participants = [] and loadDataFromFile().
Restart ==
    /\ req.kind = "none"
    /\ res = NoResponse
    /\ pendingWrites = <<>>
    /\ participants' = loadDataFromFile(dataFile)
    /\ UNCHANGED <<dataFile, pendingWrites, req, res, client>>

NextPersist ==
    \/ ReceivePersistUpload
    \/ UploadHandler
    \/ StartWrite
    \/ FinishWrite
    \/ Deliver
    \/ Restart

SpecPersist == Init /\ [][NextPersist]_vars

\* C10: when every started snapshot write has finished, loading the
\* snapshot file gives the records of the in-memory store, in order.
C10_RoundTrip ==
    pendingWrites = <<>> => loadDataFromFile(dataFile) = participants

(***************************************************************************)
(* The detail handler, app.get('/api/participants/:p_no').                 *)
(***************************************************************************)
DetailRequest(p_no) == [kind |-> "detail", p_no |-> p_no]

\* A lookup that compares without regard to letter case.
SamePNoIgnoringCase(p, p_no) == toLowerCase(p.p_no) = toLowerCase(p_no)

\* p => p.p_no === p_no
SamePNo(p, p_no) == p.p_no = p_no

\* participants.find(...): the index of the first record that satisfies the
\* callback, 0 for undefined.
find(store, p_no) ==
    LET hits == {i \in DOMAIN store : SamePNo(store[i], p_no)}
    IN  IF hits = {} THEN 0 ELSE CHOOSE i \in hits : \A j \in hits : i <= j

DetailHandler ==
    /\ req.kind = "detail"
    /\ req' = NoRequest
    /\ res' = IF find(participants, req.p_no) = 0
              THEN [status |-> 404, error |-> "Participant not found"]
              ELSE [status |-> 200,
                    participant |-> participants[find(participants, req.p_no)]]
    /\ UNCHANGED <<participants, dataFile, pendingWrites, client>>

(***************************************************************************)
(* Detail specification: sheets over DetailRows are uploaded and records   *)
(* are looked up by P.No.  The number 3 and the text "3" in P.No give two   *)
(* stored records with the same p_no.                                      *)
(***************************************************************************)
DetailRows ==
    SearchRows \cup
        { MkRow(Num(3), Num(6), Str(<<"c">>), Str(<<"T">>), Str(<<"F">>),
                Str(<<"A">>), Str(<<"P">>)) }

\* :p_no is a non-empty path segment.
DetailPNos == { <<"A","1">>, <<"a","1">>, <<"A">>, <<"3">>, <<"4">>, <<"5">> }

ReceiveDetailUpload ==
    \E sheet \in Sheets(DetailRows, MaxRows) :
        /\ pendingWrites = <<>>
        /\ Len(participants) + Len(sheet) <= MaxTotal
        /\ Receive(UploadRequest(TRUE, TRUE, sheet))

ReceiveDetail ==
    \E p_no \in DetailPNos :
        /\ pendingWrites = <<>>
        /\ Receive(DetailRequest(p_no))

NextDetail ==
    \/ ReceiveDetailUpload
    \/ UploadHandler
    \/ StartWrite
    \/ FinishWrite
    \/ ReceiveDetail
    \/ DetailHandler
    \/ Deliver

SpecDetail == Init /\ [][NextDetail]_vars

\* A step of the detail handler.
DetailStep == req.kind = "detail" /\ req'.kind = "none"

\* The stored records whose p_no is the requested value.
WithPNo(p_no) ==
    {participants[i] : i \in {j \in DOMAIN participants :
                                 participants[j].p_no = p_no}}

\* C11: a lookup answers 200 with a stored record whose p_no equals the
\* requested value exactly when the store holds such a record, and 404 with
\* { error: 'Participant not found' } otherwise; it leaves the store, the
\* snapshot file and the writes in flight as they were.
C11_DetailLookup ==
    [][DetailStep =>
          /\ participants' = participants
          /\ dataFile' = dataFile
          /\ pendingWrites' = pendingWrites
          /\ res'.status \in {200, 404}
          /\ (res'.status = 200) <=> (WithPNo(req.p_no) # {})
          /\ res'.status = 200 =>
                /\ DOMAIN res' = {"status", "participant"}
                /\ res'.participant \in WithPNo(req.p_no)
          /\ res'.status = 404 =>
                res' = [status |-> 404, error |-> "Participant not found"]]_vars

\* A lookup of "3" answered with the first of two stored records that both
\* have p_no "3".
C11_Witness ==
    /\ res.status = 200
    /\ "participant" \in DOMAIN res
    /\ res.participant.p_no = <<"3">>
    /\ \E i, j \in DOMAIN participants :
          /\ i < j
          /\ participants[i] = res.participant
          /\ participants[j].p_no = <<"3">>
          /\ participants[j] # participants[i]

(***************************************************************************)
(* Claim about the shape of stored records (upload specification).         *)
(***************************************************************************)
PresentOrAbsent == { <<"P">>, <<"A">> }

\* C12: every stored record has a non-empty p_no, mobile_no and name, and
\* each of attendance_day1 and attendance_day2 is exactly "P" or "A", also
\* when the sheet's attendance cells were lower-case or padded with spaces.
C12_StoredRecordsWellFormed ==
    \A i \in DOMAIN participants :
        /\ participants[i].p_no # <<>>
        /\ participants[i].mobile_no # <<>>
        /\ participants[i].name # <<>>
        /\ participants[i].attendance_day1 \in PresentOrAbsent
        /\ participants[i].attendance_day2 \in PresentOrAbsent

(***************************************************************************)
(* The dropdown handlers, app.get('/api/trades') and '/api/genders'.       *)
(***************************************************************************)
\* [...new Set(list)]: the distinct elements in order of first occurrence.
RECURSIVE Distinct(_)
Distinct(list) ==
    IF list = <<>> THEN <<>>
    ELSE LET front == Distinct(SubSeq(list, 1, Len(list) - 1))
             last == list[Len(list)]
         IN  IF \E i \in DOMAIN front : front[i] = last
             THEN front ELSE Append(front, last)

\* participants.map(p => p.trade).filter(t => t)
Trades(store) ==
    Distinct(SelectSeq([i \in DOMAIN store |-> store[i].trade],
                       LAMBDA t : t # <<>>))

\* participants.map(p => p.gender).filter(g => g)
Genders(store) ==
    Distinct(SelectSeq([i \in DOMAIN store |-> store[i].gender],
                       LAMBDA g : g # <<>>))

TradesHandler ==
    /\ req.kind = "trades"
    /\ req' = NoRequest
    /\ res' = [status |-> 200, list |-> Trades(participants)]
    /\ UNCHANGED <<participants, dataFile, pendingWrites, client>>

GendersHandler ==
    /\ req.kind = "genders"
    /\ req' = NoRequest
    /\ res' = [status |-> 200, list |-> Genders(participants)]
    /\ UNCHANGED <<participants, dataFile, pendingWrites, client>>

(***************************************************************************)
(* The browser client, class ExcelManagementSystem.  A fetch is a request  *)
(* put in `req` and a response taken from `res`; the user acts when no     *)
(* fetch is under way, so that one request is in flight at a time.         *)
(***************************************************************************)
itemsPerPage == 10

\* A number read from a JSON body: NaN and Infinity were written as null.
JSONnumber(x) == IF IsInt(x) THEN x ELSE Null

\* A number in arithmetic and comparisons: null is 0.
ToNumber(x) == x.v

\* A number appended to URLSearchParams.
NumberToString(x) ==
    IF x = Null THEN <<"n","u","l","l">> ELSE String(Num(x.v))

\* if (value) params.append(key, value): an empty value is left out.
Param(value) == IF value = <<>> THEN Undefined ELSE Str(value)

\* performSearch(), up to the fetch: the request built from the controls
\* and from currentPage and itemsPerPage.
SearchParams(c) ==
    SearchRequest(Param(trim(c.pNoFilter)), Param(trim(c.mobileFilter)),
                  Param(trim(c.nameFilter)), Param(c.tradeFilter),
                  Param(c.genderFilter),
                  Str(NumberToString(c.currentPage)),
                  Str(NumberToString(Int_(itemsPerPage))))

\* updatePaginationControls()
updatePaginationControls(c) ==
    [c EXCEPT !.prevDisabled = (c.currentPage = Int_(1)),
              !.nextDisabled = (c.currentPage = c.totalPages
                                   \/ c.totalPages = Int_(0))]

\* performSearch(), after the fetch.
SearchResult(c, response) ==
    IF response.status = 200
    THEN updatePaginationControls(
             [c EXCEPT !.filteredParticipants = response.participants,
                       !.totalCount = response.pagination.total,
                       !.totalPages = JSONnumber(response.pagination.totalPages),
                       !.currentPage = JSONnumber(response.pagination.page)])
    ELSE c

\* The user can act: a page is open, init() has returned, and neither a
\* fetch nor a snapshot write is under way.
ClientIdle ==
    /\ client.awaiting = "none"
    /\ req.kind = "none"
    /\ res = NoResponse
    /\ pendingWrites = <<>>

UserCanAct == client.open /\ ~client.inInit /\ ClientIdle

\* performSearch() called on client state c: the fetch is started.
performSearch(c) ==
    /\ req' = SearchParams(c)
    /\ client' = [c EXCEPT !.awaiting = "search"]

\* document DOMContentLoaded: new ExcelManagementSystem(), whose init()
\* attaches the listeners and awaits loadInitialData(), that is
\* performSearch().  Loading the page again replaces the object.
DOMContentLoaded ==
    /\ ClientIdle
    /\ performSearch(ExcelManagementSystem)
    /\ UNCHANGED <<participants, dataFile, pendingWrites, res>>

\* The search response arrives: the rest of performSearch(); in init(),
\* loadTrades() then starts its fetch.
performSearchDone ==
    /\ client.awaiting = "search"
    /\ res # NoResponse
    /\ res' = NoResponse
    /\ IF client.inInit
       THEN /\ req' = [kind |-> "trades"]
            /\ client' = [SearchResult(client, res) EXCEPT !.awaiting = "trades"]
       ELSE /\ req' = req
            /\ client' = [SearchResult(client, res) EXCEPT !.awaiting = "none"]
    /\ UNCHANGED <<participants, dataFile, pendingWrites>>

\* loadTrades(), after the fetch: the options are replaced (the selection
\* falls back to "All Trades"); loadGenders() then starts its fetch.
loadTrades ==
    /\ client.awaiting = "trades"
    /\ res # NoResponse
    /\ res' = NoResponse
    /\ req' = [kind |-> "genders"]
    /\ client' = [client EXCEPT !.tradeOptions = res.list,
                                !.tradeFilter = <<>>,
                                !.awaiting = "genders"]
    /\ UNCHANGED <<participants, dataFile, pendingWrites>>

\* loadGenders(), after the fetch; init() returns.
loadGenders ==
    /\ client.awaiting = "genders"
    /\ res # NoResponse
    /\ res' = NoResponse
    /\ client' = [client EXCEPT !.genderOptions = res.list,
                                !.genderFilter = <<>>,
                                !.awaiting = "none",
                                !.inInit = FALSE]
    /\ UNCHANGED <<participants, dataFile, pendingWrites, req>>

\* uploadBtn click with a file chosen: handleUpload(), uploadExcelFile()
\* up to the fetch.
handleUpload(r) ==
    /\ UserCanAct
    /\ req' = r
    /\ client' = [client EXCEPT !.awaiting = "upload"]
    /\ UNCHANGED <<participants, dataFile, pendingWrites, res>>

\* uploadExcelFile(), after the fetch: a successful upload refreshes the
\* list with performSearch().
uploadExcelFile ==
    /\ client.awaiting = "upload"
    /\ res # NoResponse
    /\ res' = NoResponse
    /\ IF res.status = 200
       THEN performSearch(client)
       ELSE /\ req' = req
            /\ client' = [client EXCEPT !.awaiting = "none"]
    /\ UNCHANGED <<participants, dataFile, pendingWrites>>

\* searchBtn click
searchBtnClick ==
    /\ UserCanAct
    /\ performSearch(client)
    /\ UNCHANGED <<participants, dataFile, pendingWrites, res>>

\* clearFiltersBtn click: clearFilters()
clearFilters ==
    /\ UserCanAct
    /\ performSearch([client EXCEPT !.pNoFilter = <<>>,
                                    !.mobileFilter = <<>>,
                                    !.nameFilter = <<>>,
                                    !.tradeFilter = <<>>,
                                    !.genderFilter = <<>>,
                                    !.currentPage = Int_(1)])
    /\ UNCHANGED <<participants, dataFile, pendingWrites, res>>

\* goToPage(page)
goToPage(page) ==
    IF page >= 1 /\ page <= ToNumber(client.totalPages)
    THEN /\ performSearch([client EXCEPT !.currentPage = Int_(page)])
         /\ UNCHANGED <<participants, dataFile, pendingWrites, res>>
    ELSE UNCHANGED vars

\* prevPageBtn click; a disabled button gets no click.
prevPageBtnClick ==
    /\ UserCanAct
    /\ ~client.prevDisabled
    /\ goToPage(ToNumber(client.currentPage) - 1)

\* nextPageBtn click
nextPageBtnClick ==
    /\ UserCanAct
    /\ ~client.nextDisabled
    /\ goToPage(ToNumber(client.currentPage) + 1)

\* 'input' on one of the three text filters: the debounce timer is armed
\* again.
filterInput(field, value) ==
    /\ UserCanAct
    /\ client[field] # value
    /\ client' = [client EXCEPT ![field] = value, !.searchTimeout = TRUE]
    /\ UNCHANGED <<participants, dataFile, pendingWrites, req, res>>

\* The debounce timer fires, 500 ms after the last 'input'.
searchTimeout ==
    /\ UserCanAct
    /\ client.searchTimeout
    /\ performSearch([client EXCEPT !.searchTimeout = FALSE])
    /\ UNCHANGED <<participants, dataFile, pendingWrites, res>>

\* 'change' on one of the two dropdowns: one of its options is selected.
filterChange(field, value) ==
    /\ UserCanAct
    /\ client[field] # value
    /\ performSearch([client EXCEPT ![field] = value])
    /\ UNCHANGED <<participants, dataFile, pendingWrites, res>>

(***************************************************************************)
(* Client specification: one browser page and the server.  The user loads  *)
(* the page, uploads sheets, edits the filters, and clicks the search,     *)
(* clear-filters, previous-page and next-page buttons.  The sheets hold    *)
(* the first k of the rows ClientRow(1), ClientRow(2), ..., so that the    *)
(* store grows to more than one page of itemsPerPage records.              *)
(***************************************************************************)
ClientRow(i) ==
    MkRow(Str(NatToStr(i)), Str(NatToStr(100 + i)),
          Str(IF i = 1 THEN <<"A","b">> ELSE <<"b">>),
          Str(IF i % 2 = 1 THEN <<"W">> ELSE <<"T">>),
          Str(IF i <= 2 THEN <<"F">> ELSE <<"M">>),
          Str(<<"P">>), Str(<<"A">>))

ClientSheet(k) == [i \in 1..k |-> ClientRow(i)]

\* The files the user uploads: a sheet of one row, sheets of one page or
\* more of rows, and a file that cannot be read.
ClientUploads ==
    {UploadRequest(TRUE, TRUE, ClientSheet(k)) :
        k \in {1} \cup (itemsPerPage..(itemsPerPage + MaxOverflow))}
        \cup {UploadRequest(TRUE, FALSE, <<>>)}

\* What the user types into the three text filters.
TextFilters == {"pNoFilter", "mobileFilter", "nameFilter"}
TextValues(field) ==
    CASE field = "pNoFilter" -> { <<>>, <<"1">> }
      [] field = "mobileFilter" -> { <<>>, <<"0">> }
      [] OTHER -> { <<>>, <<"a"," ">> }

\* The values of the options of a dropdown, "All ..." included.
OptionValues(field) ==
    LET options == IF field = "tradeFilter"
                   THEN client.tradeOptions ELSE client.genderOptions
    IN  { <<>> } \cup {options[i] : i \in DOMAIN options}

UploadBtnClick == \E r \in ClientUploads : handleUpload(r)

TextFilterInput ==
    \E field \in TextFilters : \E value \in TextValues(field) :
        filterInput(field, value)

DropdownChange ==
    \E field \in {"tradeFilter", "genderFilter"} :
        \E value \in OptionValues(field) : filterChange(field, value)

NextClient ==
    \/ DOMContentLoaded
    \/ performSearchDone
    \/ loadTrades
    \/ loadGenders
    \/ UploadBtnClick
    \/ uploadExcelFile
    \/ searchBtnClick
    \/ clearFilters
    \/ prevPageBtnClick
    \/ nextPageBtnClick
    \/ TextFilterInput
    \/ searchTimeout
    \/ DropdownChange
    \/ UploadHandler
    \/ StartWrite
    \/ FinishWrite
    \/ SearchHandler
    \/ TradesHandler
    \/ GendersHandler

SpecClient == Init /\ [][NextClient]_vars

\* C13: whenever the client has taken in its last search response and that
\* response reported at least one page, currentPage lies in 1..totalPages:
\* the user is not left on an empty page of a non-empty result.
C13_CurrentPageWithinTotalPages ==
    (/\ client.open
     /\ client.awaiting = "none"
     /\ ToNumber(client.totalPages) >= 1)
        => /\ 1 <= ToNumber(client.currentPage)
           /\ ToNumber(client.currentPage) <= ToNumber(client.totalPages)

====
